---- MODULE Spec2Model ----
(***************************************************************************)
(* A model of visqol_py: the ViSQOL wrapper class (visqol_py/visqol.py),   *)
(* its engine-handle selection, its measure / measure_batch operations,    *)
(* the target-sample-rate rule, the WAV decoder, the resampler and the     *)
(* WAV writer with load_audio / save_audio (visqol_py/utils.py).           *)
(*                                                                         *)
(* The native scoring engine (visqol_lib_py.VisqolApi) is outside the      *)
(* repository.  It is modelled as a list of created handles, each holding  *)
(* the configuration it was Created with, and a Measure whose answer (a    *)
(* similarity result, or a raised error) is chosen nondeterministically.   *)
(***************************************************************************)
EXTENDS Integers, Sequences, FiniteSets, TLC

VARIABLES
    mode,        \* self.mode
    native,      \* which native installation the interpreter can import
    pc,          \* "new": before ViSQOL(mode); "ready": instance built;
                 \* "failed": __init__ raised, no instance exists
    ctor_exc,    \* the error __init__ raised (<<>> when none)
    config,      \* self._config   (<<>> before _init_native ran)
    model_path,  \* self._model_path
    api,         \* self._api: index of the default handle in engine, 0 if unset
    engine,      \* the engine's handles, in Create order: engine[h] is the
                 \* configuration handle h was Created with
    calls,       \* what the last operation did, in order: loads, get-api
                 \* requests, Create and Measure calls
    measures,    \* the outcome of every self.measure call the last operation made
    outcome,     \* the last operation, its arguments, and what it returned or raised
    measured,    \* number of pairs handed to measure / measure_batch so far
    csvfile,     \* the file at the output_csv path: <<>> while there is none,
                 \* else <<[header, rows]>>
    call,        \* pure-function specifications: the function applied and its input
    value        \* pure-function specifications: its result (<<>> before the call)

vars == <<mode, native, pc, ctor_exc, config, model_path, api, engine, calls,
          measures, outcome, measured, csvfile, call, value>>

sysvars == <<mode, native, pc, ctor_exc, config, model_path, api, engine, calls,
             measures, outcome, measured, csvfile>>

(***************************************************************************)
(* Bounds of the model.                                                    *)
(***************************************************************************)
MaxMeasures == 2      \* pairs measured over the life of one instance
RateSpan == 12        \* rates checked on each side of the 16 kHz threshold
MaxBytes == 4         \* bytes in a WAV payload drawn from EdgeBytes
MaxLen == 3           \* samples in a buffer handed to the resampler
MaxSamples == 2       \* samples in a buffer handed to save_audio
MaxTrips == 2         \* saves in one run of saving and loading in turn

(***************************************************************************)
(* Program constants.                                                      *)
(***************************************************************************)
AudioDefaultRate == 48000
SpeechDefaultRate == 16000
SpeechMinRate == 16000
AudioTargetRate == 48000
SearchWindowRadius == 60

Modes == {"AUDIO", "SPEECH"}

Idle == [fn |-> "none"]

Err(kind, where) == [kind |-> kind, where |-> where]

Min(a, b) == IF a < b THEN a ELSE b

(***************************************************************************)
(* ViSQOL._check_native_availability: the package's own build, else a      *)
(* system-wide installation, else not available.                           *)
(***************************************************************************)
CheckNativeAvailability(nat) == nat \in {"package", "system"}

(***************************************************************************)
(* The configuration _init_native builds.  Fields it does not assign keep  *)
(* the protobuf default (FALSE).                                           *)
(***************************************************************************)
ModelFile(m) ==
    IF m = "AUDIO" THEN "libsvm_nu_svr_model.txt"
    ELSE "lattice_tcditugenmeetpackhref_ls2_nl60_lr12_bs2048_learn.005_ep2400_train1_7_raw.tflite"

DefaultConfig(m) ==
    IF m = "AUDIO"
    THEN [sample_rate |-> AudioDefaultRate,
          use_speech_scoring |-> FALSE,
          use_lattice_model |-> FALSE,
          detect_voice_activity |-> FALSE,
          use_unscaled_speech_mos_mapping |-> FALSE,
          search_window_radius |-> SearchWindowRadius,
          svr_model_path |-> ModelFile(m)]
    ELSE [sample_rate |-> SpeechDefaultRate,
          use_speech_scoring |-> TRUE,
          use_lattice_model |-> TRUE,
          detect_voice_activity |-> TRUE,
          use_unscaled_speech_mos_mapping |-> FALSE,
          search_window_radius |-> SearchWindowRadius,
          svr_model_path |-> ModelFile(m)]

(***************************************************************************)
(* ViSQOL.__init__ with _init_native inlined: the fields of the new        *)
(* instance, or the ImportError it raises.  _init_native imports the       *)
(* library again, so it raises ImportError by itself when nothing is       *)
(* installed.                                                              *)
(***************************************************************************)
InitNative(m, nat) ==
    IF nat = "none"
    THEN [ok |-> FALSE, exc |-> <<Err("ImportError", "_init_native")>>,
          config |-> <<>>, model_path |-> "", api |-> 0, engine |-> <<>>]
    ELSE [ok |-> TRUE, exc |-> <<>>,
          config |-> <<DefaultConfig(m)>>, model_path |-> ModelFile(m),
          api |-> 1, engine |-> <<DefaultConfig(m)>>]

ConstructorFallback(m, nat) ==
    IF ~CheckNativeAvailability(nat)
    THEN [ok |-> TRUE, exc |-> <<>>,
          config |-> <<DefaultConfig(m)>>, model_path |-> ModelFile(m),
          api |-> 0, engine |-> <<>>]
    ELSE InitNative(m, nat)

Constructor(m, nat) ==
    IF ~CheckNativeAvailability(nat)
    THEN [ok |-> FALSE, exc |-> <<Err("ImportError", "__init__")>>,
          config |-> <<>>, model_path |-> "", api |-> 0, engine |-> <<>>]
    ELSE InitNative(m, nat)

(***************************************************************************)
(* Audio sources handed to measure.  A WAV file is described by what       *)
(* _load_wav_file gets from it: whether it can be read at all, its frame   *)
(* rate and its frame count.  An array carries its element type and its    *)
(* samples only; rate is the rate the samples were really produced at,     *)
(* which the program never sees.  A sample is the number num / 2^exp.      *)
(***************************************************************************)
Dy(num, exp) == [num |-> num, exp |-> exp]

WavSource(name, rate, frames, readable) ==
    [kind |-> "wav", name |-> name, rate |-> rate, frames |-> frames,
     readable |-> readable]

ArraySource(name, rate, dtype, samples) ==
    [kind |-> "array", name |-> name, rate |-> rate, frames |-> Len(samples),
     readable |-> TRUE, dtype |-> dtype, samples |-> samples]

Sources ==
    { WavSource("ref16k.wav", 16000, 4, TRUE),
      WavSource("deg44k.wav", 44100, 441, TRUE),
      WavSource("broken.wav", 0, 0, FALSE),
      WavSource("empty16k.wav", 16000, 0, TRUE),
      ArraySource("array", 48000, "float32",
                  <<Dy(0, 0), Dy(1, 1), Dy(0 - 1, 0), Dy(1, 2), Dy(3, 2),
                    Dy(0 - 1, 15)>>) }

Pairs == Sources \X Sources

\* measure_batch takes (reference_path, degraded_path) tuples: files only
FilePairs == { p \in Pairs : p[1].kind = "wav" /\ p[2].kind = "wav" }

(***************************************************************************)
(* The engine's answers to one Measure call: a similarity result (moslqo   *)
(* and vnsim in hundredths), or an error raised by the call.               *)
(***************************************************************************)
SimilarityResults ==
    { [moslqo |-> 100, vnsim |-> 20, fvnsim |-> <<20, 21>>,
       center_freq_bands |-> <<50, 150>>],
      [moslqo |-> 473, vnsim |-> 98, fvnsim |-> <<97, 99>>,
       center_freq_bands |-> <<50, 150>>] }

NoAnswer == [ok |-> FALSE, result |-> <<>>]

EngineAnswers ==
    { [ok |-> TRUE, result |-> <<r>>] : r \in SimilarityResults }
      \cup { NoAnswer }

(***************************************************************************)
(* ViSQOL._get_target_sample_rate.                                         *)
(***************************************************************************)
TargetRateFixedSpeech(m, original_sr) ==
    IF m = "SPEECH" THEN SpeechMinRate ELSE AudioTargetRate

GetTargetSampleRate(m, original_sr) ==
    IF m = "SPEECH"
    THEN IF original_sr >= SpeechMinRate THEN original_sr ELSE SpeechMinRate
    ELSE AudioTargetRate

(***************************************************************************)
(* ViSQOL._load_wav_file as measure sees it: the decoded sample count and  *)
(* the file's rate, or the RuntimeError its except clause raises for any   *)
(* failure underneath.  DecodeWav below models the decoding of the bytes.  *)
(***************************************************************************)
LoadWavFile(src) ==
    IF src.readable
    THEN [ok |-> TRUE, len |-> src.frames, sr |-> src.rate]
    ELSE [ok |-> FALSE, exc |-> Err("RuntimeError", "_load_wav_file")]

(***************************************************************************)
(* The double-precision arithmetic of _resample_audio's                    *)
(*     ratio = target_sr / orig_sr                                         *)
(*     new_length = int(orig_length * ratio)                               *)
(* A positive double is [bits, e]: its 53 significand bits, most           *)
(* significant first, and the exponent of the last one; it stands for      *)
(* FromBits(bits) * 2^e.  0.0 is [bits |-> <<>>, e |-> 0].  Both operations *)
(* round to nearest, ties to even.                                         *)
(***************************************************************************)
\* Sequences of bits are split in halves, which keeps the evaluation shallow.
RECURSIVE BitsOf(_)
BitsOf(n) == IF n = 0 THEN <<>> ELSE Append(BitsOf(n \div 2), n % 2)

RECURSIVE TwoTo(_)
TwoTo(k) == IF k = 0 THEN 1 ELSE 2 * TwoTo(k - 1)

RECURSIVE FromBits(_)
FromBits(bits) ==
    IF Len(bits) = 0 THEN 0
    ELSE IF Len(bits) = 1 THEN bits[1]
    ELSE LET h == Len(bits) \div 2
         IN FromBits(SubSeq(bits, 1, h)) * TwoTo(Len(bits) - h)
                + FromBits(SubSeq(bits, h + 1, Len(bits)))

\* the next n bits of r / b after the binary point (0 <= r < b), and what is left
RECURSIVE FracBits(_, _, _)
FracBits(r, b, n) ==
    IF n = 0 THEN [bits |-> <<>>, rem |-> r]
    ELSE IF n = 1
    THEN IF 2 * r >= b THEN [bits |-> <<1>>, rem |-> 2 * r - b]
         ELSE [bits |-> <<0>>, rem |-> 2 * r]
    ELSE LET Rest(first) ==
                 LET Join(second) == [bits |-> first.bits \o second.bits,
                                      rem |-> second.rem]
                 IN Join(FracBits(first.rem, b, n - n \div 2))
         IN Rest(FracBits(r, b, n \div 2))

\* the zero bits of r / b (0 < r < b < 2^30) between the binary point and its
\* first 1
RECURSIVE SkipZeros(_, _, _)
SkipZeros(r, b, z) ==
    IF 2 * r >= b THEN [z |-> z, rem |-> r] ELSE SkipZeros(2 * r, b, z + 1)

\* a sequence back to front
Reverse(s) == [i \in 1..Len(s) |-> s[Len(s) + 1 - i]]

\* low * n + carry for bits given lowest first: the low Len(low) bits of it,
\* lowest first, and the carry out of them
RECURSIVE TimesBits(_, _, _)
TimesBits(low, n, carry) ==
    IF Len(low) = 0 THEN [bits |-> <<>>, carry |-> carry]
    ELSE IF Len(low) = 1
    THEN [bits |-> <<(low[1] * n + carry) % 2>>,
          carry |-> (low[1] * n + carry) \div 2]
    ELSE LET h == Len(low) \div 2
             Rest(first) ==
                 LET Join(second) == [bits |-> first.bits \o second.bits,
                                      carry |-> second.carry]
                 IN Join(TimesBits(SubSeq(low, h + 1, Len(low)), n, first.carry))
         IN Rest(TimesBits(SubSeq(low, 1, h), n, carry))

\* bits * n + carry in full
Product(bits, n, carry) ==
    LET Whole(t) == BitsOf(t.carry) \o Reverse(t.bits)
    IN Whole(TimesBits(Reverse(bits), n, carry))

Increment(bits) == Product(bits, 1, 1)

\* the double nearest to (bits + a fraction that is non-zero iff sticky) * 2^e
RoundDouble(bits, e, sticky) ==
    LET n == Len(bits) IN
    IF n <= 53
    THEN [bits |-> bits \o [i \in 1..(53 - n) |-> 0], e |-> e - (53 - n)]
    ELSE LET up == /\ bits[54] = 1
                   /\ \/ sticky
                      \/ \E i \in 55..n : bits[i] = 1
                      \/ bits[53] = 1
             Renormalised(m) ==
                 IF Len(m) = 54
                 THEN [bits |-> SubSeq(m, 1, 53), e |-> e + (n - 53) + 1]
                 ELSE [bits |-> m, e |-> e + (n - 53)]
         IN Renormalised(IF up THEN Increment(SubSeq(bits, 1, 53))
                         ELSE SubSeq(bits, 1, 53))

\* a / b for integers a >= 0 and 0 < b < 2^30
Float64Div(a, b) ==
    IF a = 0 THEN [bits |-> <<>>, e |-> 0]
    ELSE IF a >= b
    THEN LET Quotient(whole) ==
                 LET Rounded(f) ==
                         RoundDouble(whole \o f.bits, 0 - (54 - Len(whole)),
                                     f.rem # 0)
                 IN Rounded(FracBits(a % b, b, 54 - Len(whole)))
         IN Quotient(BitsOf(a \div b))
    ELSE LET Fraction(s) ==
                 LET Rounded(f) ==
                         RoundDouble(f.bits, 0 - (s.z + 54), f.rem # 0)
                 IN Rounded(FracBits(s.rem, b, 54))
         IN Fraction(SkipZeros(a, b, 0))

\* n * x for an integer n >= 0
Float64Times(n, x) ==
    IF n = 0 \/ x.bits = <<>> THEN [bits |-> <<>>, e |-> 0]
    ELSE RoundDouble(Product(x.bits, n, 0), x.e, FALSE)

\* int(x) for x >= 0 below 2^31
IntOf(x) ==
    IF x.bits = <<>> \/ 53 + x.e <= 0 THEN 0
    ELSE FromBits(SubSeq(x.bits, 1, 53 + x.e))

NewLength(orig_length, orig_sr, target_sr) ==
    IntOf(Float64Times(orig_length, Float64Div(target_sr, orig_sr)))

(***************************************************************************)
(* ViSQOL._resample_audio, by sample count: int(orig_length * ratio)       *)
(* samples.  numpy.interp raises ValueError when its sample points are     *)
(* empty, which is the case for an empty input.                            *)
(***************************************************************************)
ResampleAudio(len, orig_sr, target_sr) ==
    IF orig_sr = target_sr THEN [ok |-> TRUE, len |-> len]
    ELSE IF len = 0
         THEN [ok |-> FALSE, exc |-> Err("ValueError", "_resample_audio")]
         ELSE [ok |-> TRUE, len |-> NewLength(len, orig_sr, target_sr)]

(***************************************************************************)
(* ViSQOL._load_audio_with_sr: the buffer (its source, its length and the  *)
(* rate its samples are at) and the rate reported for it, or the error.    *)
(* An array is converted with astype(np.float64), which keeps every        *)
(* float32 value, and is never resampled.                                  *)
(***************************************************************************)
AsFloat64(src) == [dtype |-> "float64", samples |-> src.samples]

\* the array branch of _load_audio_with_sr
LoadArrayAsAudio(m, src) ==
    [ok |-> TRUE,
     buf |-> [src |-> src.name, kind |-> src.kind,
              len |-> Len(AsFloat64(src).samples), data |-> AsFloat64(src),
              rate |-> src.rate, resampled |-> FALSE],
     sr |-> AudioDefaultRate]

LoadArray(m, src) ==
    [ok |-> TRUE,
     buf |-> [src |-> src.name, kind |-> src.kind,
              len |-> Len(AsFloat64(src).samples), data |-> AsFloat64(src),
              rate |-> src.rate, resampled |-> FALSE],
     sr |-> IF m = "SPEECH" THEN SpeechDefaultRate ELSE AudioDefaultRate]

LoadAudioWithSr(m, src) ==
    IF src.kind = "array" THEN LoadArray(m, src)
    ELSE LET wav == LoadWavFile(src) IN
         IF ~wav.ok THEN [ok |-> FALSE, exc |-> wav.exc]
         ELSE LET target_sr == GetTargetSampleRate(m, wav.sr)
                  Loaded(res) ==
                      IF ~res.ok THEN [ok |-> FALSE, exc |-> res.exc]
                      ELSE [ok |-> TRUE,
                            buf |-> [src |-> src.name, kind |-> src.kind,
                                     len |-> res.len,
                                     rate |-> IF wav.sr # target_sr
                                              THEN target_sr ELSE wav.sr,
                                     resampled |-> wav.sr # target_sr],
                            sr |-> target_sr]
              IN Loaded(IF wav.sr # target_sr
                        THEN ResampleAudio(wav.len, wav.sr, target_sr)
                        ELSE [ok |-> TRUE, len |-> wav.len])

\* what _load_audio_with_sr gives for each source of the model in each mode
LoadedAudio == [m \in Modes, src \in Sources |-> LoadAudioWithSr(m, src)]

(***************************************************************************)
(* ViSQOL._get_api_for_sample_rate: the default handle when the rate is    *)
(* the default configuration's; otherwise a handle Created on the spot     *)
(* from a copy of the default options.  The copy's module is imported      *)
(* from the package build only, so the import raises under a system-wide   *)
(* installation.  st is [engine, events].                                  *)
(***************************************************************************)
CreateApiFewerOptions(cfg, mpath, st, sample_rate) ==
    LET new == [sample_rate |-> sample_rate,
                use_speech_scoring |-> cfg.use_speech_scoring,
                use_lattice_model |-> cfg.use_lattice_model,
                detect_voice_activity |-> FALSE,
                use_unscaled_speech_mos_mapping |-> FALSE,
                search_window_radius |-> cfg.search_window_radius,
                svr_model_path |-> mpath]
        h == Len(st.engine) + 1
    IN [ok |-> TRUE, handle |-> h, engine |-> Append(st.engine, new),
        events |-> st.events \o
            << [ev |-> "Create", handle |-> h, rate |-> sample_rate],
               [ev |-> "get_api", rate |-> sample_rate, handle |-> h] >>]

CreateApi(cfg, mpath, st, sample_rate) ==
    LET new == [sample_rate |-> sample_rate,
                use_speech_scoring |-> cfg.use_speech_scoring,
                use_lattice_model |-> cfg.use_lattice_model,
                detect_voice_activity |-> cfg.detect_voice_activity,
                use_unscaled_speech_mos_mapping |->
                    cfg.use_unscaled_speech_mos_mapping,
                search_window_radius |-> cfg.search_window_radius,
                svr_model_path |-> mpath]
        h == Len(st.engine) + 1
    IN [ok |-> TRUE, handle |-> h, engine |-> Append(st.engine, new),
        events |-> st.events \o
            << [ev |-> "Create", handle |-> h, rate |-> sample_rate],
               [ev |-> "get_api", rate |-> sample_rate, handle |-> h] >>]

GetApiNewestHandle(cfg, mpath, apiH, nat, st, sample_rate) ==
    IF sample_rate = cfg.sample_rate
    THEN [ok |-> TRUE, handle |-> Len(st.engine), engine |-> st.engine,
          events |-> Append(st.events,
              [ev |-> "get_api", rate |-> sample_rate,
               handle |-> Len(st.engine)])]
    ELSE IF nat # "package"
         THEN [ok |-> FALSE,
               exc |-> Err("ImportError", "_get_api_for_sample_rate"),
               engine |-> st.engine, events |-> st.events]
         ELSE CreateApi(cfg, mpath, st, sample_rate)

GetApiAlwaysCreate(cfg, mpath, apiH, nat, st, sample_rate) ==
    CreateApi(cfg, mpath, st, sample_rate)

GetApiForSampleRate(cfg, mpath, apiH, nat, st, sample_rate) ==
    IF sample_rate = cfg.sample_rate
    THEN [ok |-> TRUE, handle |-> apiH, engine |-> st.engine,
          events |-> Append(st.events,
              [ev |-> "get_api", rate |-> sample_rate, handle |-> apiH])]
    ELSE IF nat # "package"
         THEN [ok |-> FALSE,
               exc |-> Err("ImportError", "_get_api_for_sample_rate"),
               engine |-> st.engine, events |-> st.events]
         ELSE CreateApi(cfg, mpath, st, sample_rate)

(***************************************************************************)
(* VisqolApi.Measure on handle h: the answer the engine gives.  A handle   *)
(* that was never Created has no Measure to call.                          *)
(***************************************************************************)
EngineMeasure(eng, h, answer) ==
    IF h \notin 1..Len(eng)
    THEN [ok |-> FALSE, exc |-> Err("AttributeError", "Measure")]
    ELSE IF ~answer.ok
         THEN [ok |-> FALSE, exc |-> Err("EngineError", "Measure")]
         ELSE [ok |-> TRUE, result |-> answer.result[1]]

(***************************************************************************)
(* str(x) if x is a path, None (<<>>) if it is an array.                   *)
(***************************************************************************)
PathOfAny(src) == <<src.name>>

PathOf(src) == IF src.kind = "wav" THEN <<src.name>> ELSE <<>>

(***************************************************************************)
(* The ViSQOLResult _measure_native builds from the engine's result.       *)
(***************************************************************************)
BuildResultWrongField(sim, reference, degraded) ==
    [moslqo |-> sim.vnsim,
     vnsim |-> sim.vnsim,
     fvnsim |-> sim.fvnsim,
     center_freq_bands |-> sim.center_freq_bands,
     reference_path |-> PathOf(reference),
     degraded_path |-> PathOf(degraded)]

BuildResult(sim, reference, degraded) ==
    [moslqo |-> sim.moslqo,
     vnsim |-> sim.vnsim,
     fvnsim |-> sim.fvnsim,
     center_freq_bands |-> sim.center_freq_bands,
     reference_path |-> PathOf(reference),
     degraded_path |-> PathOf(degraded)]

(***************************************************************************)
(* ViSQOL.measure (_measure_native): load the reference, load the          *)
(* degraded, get the handle for the reference's rate, Measure, build the   *)
(* ViSQOLResult.  ins is the instance ([mode, config, model_path, api,     *)
(* native]); st is [engine, events]; the result is [ok, ret | exc,         *)
(* engine, events].                                                        *)
(***************************************************************************)
MeasureNativeApiFirst(ins, st, reference, degraded, answer) ==
    LET ref == LoadedAudio[ins.mode, reference]
        ev1 == Append(st.events, [ev |-> "load", src |-> reference.name])
    IN
    IF ~ref.ok
    THEN [ok |-> FALSE, exc |-> ref.exc, engine |-> st.engine, events |-> ev1]
    ELSE
    LET got == GetApiForSampleRate(ins.config, ins.model_path, ins.api,
                   ins.native, [engine |-> st.engine, events |-> ev1], ref.sr)
    IN
    IF ~got.ok
    THEN [ok |-> FALSE, exc |-> got.exc, engine |-> got.engine,
          events |-> got.events]
    ELSE
    LET deg == LoadedAudio[ins.mode, degraded]
        ev2 == Append(got.events, [ev |-> "load", src |-> degraded.name])
    IN
    IF ~deg.ok
    THEN [ok |-> FALSE, exc |-> deg.exc, engine |-> got.engine, events |-> ev2]
    ELSE
    LET sim == EngineMeasure(got.engine, got.handle, answer)
        ev3 == Append(ev2,
                   [ev |-> "Measure", handle |-> got.handle,
                    ref |-> ref.buf, deg |-> deg.buf,
                    out |-> IF sim.ok THEN <<sim.result>> ELSE <<>>])
    IN
    IF ~sim.ok
    THEN [ok |-> FALSE, exc |-> sim.exc, engine |-> got.engine, events |-> ev3]
    ELSE [ok |-> TRUE, ret |-> BuildResult(sim.result, reference, degraded),
          engine |-> got.engine, events |-> ev3]

MeasureNative(ins, st, reference, degraded, answer) ==
    LET ref == LoadedAudio[ins.mode, reference]
        ev1 == Append(st.events, [ev |-> "load", src |-> reference.name])
    IN
    IF ~ref.ok
    THEN [ok |-> FALSE, exc |-> ref.exc, engine |-> st.engine, events |-> ev1]
    ELSE
    LET deg == LoadedAudio[ins.mode, degraded]
        ev2 == Append(ev1, [ev |-> "load", src |-> degraded.name])
    IN
    IF ~deg.ok
    THEN [ok |-> FALSE, exc |-> deg.exc, engine |-> st.engine, events |-> ev2]
    ELSE
    LET got == GetApiForSampleRate(ins.config, ins.model_path, ins.api,
                   ins.native, [engine |-> st.engine, events |-> ev2], ref.sr)
    IN
    IF ~got.ok
    THEN [ok |-> FALSE, exc |-> got.exc, engine |-> got.engine,
          events |-> got.events]
    ELSE
    LET sim == EngineMeasure(got.engine, got.handle, answer)
        ev3 == Append(got.events,
                   [ev |-> "Measure", handle |-> got.handle,
                    ref |-> ref.buf, deg |-> deg.buf,
                    out |-> IF sim.ok THEN <<sim.result>> ELSE <<>>])
    IN
    IF ~sim.ok
    THEN [ok |-> FALSE, exc |-> sim.exc, engine |-> got.engine, events |-> ev3]
    ELSE [ok |-> TRUE, ret |-> BuildResult(sim.result, reference, degraded),
          engine |-> got.engine, events |-> ev3]

(***************************************************************************)
(* One record per self.measure call an operation made: its arguments and   *)
(* what it returned or raised.                                             *)
(***************************************************************************)
MeasureRecord(pair, m) ==
    [ref |-> pair[1].name, deg |-> pair[2].name,
     ret |-> IF m.ok THEN <<m.ret>> ELSE <<>>,
     exc |-> IF m.ok THEN <<>> ELSE <<m.exc>>]

(***************************************************************************)
(* ViSQOL.measure_batch's loop from pair i on.  acc is [engine, events,    *)
(* results, measures].  A failing pair ends the loop with a RuntimeError   *)
(* raised from the pair's error; otherwise the results are returned.       *)
(***************************************************************************)
CollectResultFront(results, result) == <<result>> \o results

CollectResult(results, result) == Append(results, result)

OnPairFailureSkip(ins, acc, pair, m) ==
    [done |-> FALSE, exc |-> <<>>,
     results |-> Append(acc.results,
         [moslqo |-> 100, vnsim |-> 0, fvnsim |-> <<>>,
          center_freq_bands |-> <<>>,
          reference_path |-> PathOf(pair[1]),
          degraded_path |-> PathOf(pair[2])])]

OnPairFailure(ins, acc, pair, m) ==
    [done |-> TRUE,
     exc |-> <<[kind |-> "RuntimeError", where |-> "measure_batch",
                ref |-> pair[1].name, deg |-> pair[2].name,
                cause |-> m.exc]>>,
     results |-> acc.results]

RECURSIVE BatchLoop(_, _, _, _, _)
BatchLoop(ins, acc, file_pairs, answers, i) ==
    IF i > Len(file_pairs)
    THEN [ok |-> TRUE, ret |-> <<acc.results>>, exc |-> <<>>,
          engine |-> acc.engine, events |-> acc.events,
          measures |-> acc.measures]
    ELSE
    LET Body(m, ms) ==
            IF m.ok
            THEN BatchLoop(ins,
                     [engine |-> m.engine, events |-> m.events,
                      results |-> CollectResult(acc.results, m.ret),
                      measures |-> ms],
                     file_pairs, answers, i + 1)
            ELSE
            LET Handled(f) ==
                    IF f.done
                    THEN [ok |-> FALSE, ret |-> <<>>, exc |-> f.exc,
                          engine |-> m.engine, events |-> m.events,
                          measures |-> ms]
                    ELSE BatchLoop(ins,
                             [engine |-> m.engine, events |-> m.events,
                              results |-> f.results, measures |-> ms],
                             file_pairs, answers, i + 1)
            IN Handled(OnPairFailure(ins, acc, file_pairs[i], m))
        Try(m) == Body(m, Append(acc.measures, MeasureRecord(file_pairs[i], m)))
    IN Try(MeasureNative(ins, [engine |-> acc.engine, events |-> acc.events],
                         file_pairs[i][1], file_pairs[i][2], answers[i]))

(***************************************************************************)
(* measure_batch's output_csv argument: None (<<>>) or the path of a file  *)
(* that can be written.  _save_batch_results runs after the loop, when     *)
(* output_csv is given: it opens the file for writing, which empties it,   *)
(* and writes the header row and one row per result: reference_path or '', *)
(* degraded_path or '', and the moslqo with six decimals.  A moslqo is in  *)
(* hundredths, so f"{moslqo:.6f}" is its whole part and its fraction in    *)
(* millionths.                                                             *)
(***************************************************************************)
OutputCsvArgs == { <<>>, <<"results.csv">> }

CsvRequested(output_csv) == output_csv # <<>>

OrEmpty(path) == IF path = <<>> THEN "" ELSE path[1]

SixDecimals(hundredths) ==
    [whole |-> hundredths \div 100, millionths |-> (hundredths % 100) * 10000]

CsvRow(result) ==
    [reference |-> OrEmpty(result.reference_path),
     degraded |-> OrEmpty(result.degraded_path),
     moslqo |-> SixDecimals(result.moslqo)]

SaveBatchResults(results) ==
    [header |-> <<"reference", "degraded", "moslqo">>,
     rows |-> [i \in 1..Len(results) |-> CsvRow(results[i])]]

CsvAfterBatchEachPair(b, output_csv, old) ==
    IF CsvRequested(output_csv)
    THEN LET HasRet(m) == m.ret # <<>>
             done == SelectSeq(b.measures, HasRet)
         IN <<SaveBatchResults([i \in 1..Len(done) |-> done[i].ret[1]])>>
    ELSE old

CsvAfterBatch(b, output_csv, old) ==
    IF b.ok /\ CsvRequested(output_csv)
    THEN <<SaveBatchResults(b.ret[1])>>
    ELSE old

EventsAfterBatch(b, output_csv) ==
    IF b.ok /\ CsvRequested(output_csv)
    THEN Append(b.events, [ev |-> "save_csv", path |-> output_csv[1]])
    ELSE b.events

(***************************************************************************)
(* The engine answers worth choosing among for a list of pairs: the engine *)
(* is asked about pair i only if both sources of every pair up to i load,  *)
(* so for the other pairs one answer stands for all.                       *)
(***************************************************************************)
LoadsOk(m, pair) ==
    LoadedAudio[m, pair[1]].ok /\ LoadedAudio[m, pair[2]].ok

AnswersFor(m, file_pairs) ==
    { a \in [1..Len(file_pairs) -> EngineAnswers] :
        \A i \in 1..Len(file_pairs) :
            (\E j \in 1..i : ~LoadsOk(m, file_pairs[j])) => a[i] = NoAnswer }

(***************************************************************************)
(* The system: one interpreter, one ViSQOL instance.                       *)
(***************************************************************************)
NoOutcome == [op |-> "none", args |-> <<>>, ret |-> <<>>, exc |-> <<>>]

Instance ==
    [mode |-> mode, config |-> config[1], model_path |-> model_path,
     api |-> api, native |-> native]

Init ==
    /\ mode \in Modes
    /\ native \in {"none", "package", "system"}
    /\ pc = "new"
    /\ ctor_exc = <<>>
    /\ config = <<>>
    /\ model_path = ""
    /\ api = 0
    /\ engine = <<>>
    /\ calls = <<>>
    /\ measures = <<>>
    /\ outcome = NoOutcome
    /\ measured = 0
    /\ csvfile = <<>>
    /\ call = Idle
    /\ value = <<>>

\* ViSQOL(mode)
Construct ==
    /\ pc = "new"
    /\ LET c == Constructor(mode, native) IN
       /\ pc' = IF c.ok THEN "ready" ELSE "failed"
       /\ ctor_exc' = c.exc
       /\ config' = c.config
       /\ model_path' = c.model_path
       /\ api' = c.api
       /\ engine' = c.engine
    /\ UNCHANGED <<mode, native, calls, measures, outcome, measured, csvfile,
                   call, value>>

\* visqol.measure(reference, degraded)
Measure ==
    /\ pc = "ready"
    /\ measured < MaxMeasures
    /\ \E pair \in Pairs : \E answers \in AnswersFor(mode, <<pair>>) :
         LET m == MeasureNative(Instance, [engine |-> engine, events |-> <<>>],
                                pair[1], pair[2], answers[1])
         IN /\ engine' = m.engine
            /\ calls' = m.events
            /\ measures' = <<MeasureRecord(pair, m)>>
            /\ outcome' = [op |-> "measure", args |-> <<pair>>,
                           ret |-> IF m.ok THEN <<m.ret>> ELSE <<>>,
                           exc |-> IF m.ok THEN <<>> ELSE <<m.exc>>]
    /\ measured' = measured + 1
    /\ UNCHANGED <<mode, native, pc, ctor_exc, config, model_path, api, csvfile,
                   call, value>>

BatchInputs(n) == UNION { [1..k -> FilePairs] : k \in 0..n }

\* visqol.measure_batch(file_pairs, output_csv)
MeasureBatch ==
    /\ pc = "ready"
    /\ \E file_pairs \in BatchInputs(MaxMeasures - measured) :
       \E answers \in AnswersFor(mode, file_pairs) :
       \E b \in {BatchLoop(Instance,
                      [engine |-> engine, events |-> <<>>, results |-> <<>>,
                       measures |-> <<>>],
                      file_pairs, answers, 1)} :
       \E output_csv \in OutputCsvArgs :
            /\ engine' = b.engine
            /\ calls' = EventsAfterBatch(b, output_csv)
            /\ measures' = b.measures
            /\ csvfile' = CsvAfterBatch(b, output_csv, csvfile)
            /\ outcome' = [op |-> "measure_batch", args |-> file_pairs,
                           ret |-> b.ret, exc |-> b.exc,
                           output_csv |-> output_csv]
            /\ measured' = measured + Len(file_pairs)
    /\ UNCHANGED <<mode, native, pc, ctor_exc, config, model_path, api, call, value>>

Next == Construct \/ Measure \/ MeasureBatch

Spec == Init /\ [][Next]_vars

(***************************************************************************)
(* Vocabulary of the claims about the system.                              *)
(***************************************************************************)
ModeDefaultRate == IF mode = "SPEECH" THEN 16000 ELSE 48000

CreatesAt(rate) == { h \in 1..Len(engine) : engine[h].sample_rate = rate }

EventsOf(kind) == { i \in 1..Len(calls) : calls[i].ev = kind }

IsBatch == outcome.op = "measure_batch"

FailedMeasures == { i \in 1..Len(measures) : measures[i].exc # <<>> }

\* the results handed back to the caller by the last operation
Returned ==
    IF outcome.ret = <<>> THEN <<>>
    ELSE IF IsBatch THEN outcome.ret[1] ELSE outcome.ret

\* the pair the i-th returned result answers
PairOfReturned(i) == outcome.args[i]

(***************************************************************************)
(* C1: over the life of an instance the engine is configured (Create) at   *)
(* most once for each sample rate.                                         *)
(* The code keeps no handle but the default one: this fails.               *)
(***************************************************************************)
C1_ConfigureOncePerRate ==
    \A h1, h2 \in 1..Len(engine) :
        engine[h1].sample_rate = engine[h2].sample_rate => h1 = h2

(***************************************************************************)
(* C2: every request for the handle of the mode's default rate returns the *)
(* handle made at construction, and the engine is configured for that rate *)
(* exactly once.                                                           *)
(***************************************************************************)
C2_DefaultHandleReused ==
    pc = "ready" =>
        /\ api = 1
        /\ CreatesAt(ModeDefaultRate) = {api}
        /\ \A i \in EventsOf("get_api") :
               calls[i].rate = ModeDefaultRate => calls[i].handle = api

C2_Witness ==
    /\ pc = "ready"
    /\ \E i, j \in EventsOf("get_api") :
          /\ i < j
          /\ calls[i].rate = ModeDefaultRate /\ calls[i].handle = api
          /\ calls[j].rate = ModeDefaultRate /\ calls[j].handle = api

(***************************************************************************)
(* C3: when both sources are WAV files, the two buffers handed to Measure  *)
(* are at one rate, the rate the handle used was configured with.          *)
(* The degraded file's target rate is dropped by _measure_native: this     *)
(* fails in SPEECH mode when the two files' rates differ.                  *)
(***************************************************************************)
C3_BuffersAtHandleRate ==
    \A i \in EventsOf("Measure") :
        (calls[i].ref.kind = "wav" /\ calls[i].deg.kind = "wav"
            /\ calls[i].handle \in 1..Len(engine)) =>
            /\ calls[i].ref.rate = calls[i].deg.rate
            /\ calls[i].ref.rate = engine[calls[i].handle].sample_rate

(***************************************************************************)
(* C5: when a pair fails in measure, measure_batch raises and returns no   *)
(* list: neither the earlier results nor a placeholder.                    *)
(***************************************************************************)
C5_BatchFailsWhole ==
    (IsBatch /\ FailedMeasures # {}) =>
        /\ outcome.exc # <<>>
        /\ outcome.ret = <<>>

C5_Witness ==
    /\ IsBatch
    /\ Len(measures) = 2
    /\ measures[1].ret # <<>>
    /\ measures[2].exc # <<>>
    /\ outcome.ret = <<>>
    /\ outcome.exc # <<>>

(***************************************************************************)
(* C6: when every pair's measure succeeds, measure_batch returns one       *)
(* result per input pair, in input order: the i-th result is what measure  *)
(* returned for the i-th pair.                                             *)
(***************************************************************************)
C6_BatchResultsInOrder ==
    (IsBatch /\ FailedMeasures = {}) =>
        /\ outcome.ret # <<>>
        /\ outcome.exc = <<>>
        /\ Len(Returned) = Len(outcome.args)
        /\ Len(measures) = Len(outcome.args)
        /\ \A i \in 1..Len(outcome.args) :
              /\ measures[i].ref = outcome.args[i][1].name
              /\ measures[i].deg = outcome.args[i][2].name
              /\ Returned[i] = measures[i].ret[1]
              /\ Returned[i].reference_path = <<outcome.args[i][1].name>>
              /\ Returned[i].degraded_path = <<outcome.args[i][2].name>>

C6_Witness ==
    /\ IsBatch
    /\ Len(outcome.args) = 2
    /\ outcome.args[1] # outcome.args[2]
    /\ Len(Returned) = 2
    /\ Returned[1].moslqo # Returned[2].moslqo

C6_WitnessEmpty ==
    IsBatch /\ outcome.args = <<>> /\ outcome.ret = << <<>> >>

(***************************************************************************)
(* C7: the error measure_batch raises is of the kind of the error the      *)
(* failing pair's measure raised.                                          *)
(* measure_batch raises a RuntimeError of its own whatever the pair        *)
(* raised: this fails.                                                     *)
(***************************************************************************)
C7_BatchErrorKindPreserved ==
    (IsBatch /\ outcome.exc # <<>>) =>
        /\ measures # <<>>
        /\ measures[Len(measures)].exc # <<>>
        /\ outcome.exc[1].kind = measures[Len(measures)].exc[1].kind

(***************************************************************************)
(* C8: the moslqo of every returned result is the moslqo an engine Measure *)
(* call returned for the same pair of sources.                             *)
(***************************************************************************)
C8_ScoresComeFromEngine ==
    \A i \in 1..Len(Returned) :
        \E e \in EventsOf("Measure") :
            /\ calls[e].out # <<>>
            /\ calls[e].out[1].moslqo = Returned[i].moslqo
            /\ calls[e].ref.src = PairOfReturned(i)[1].name
            /\ calls[e].deg.src = PairOfReturned(i)[2].name

C8_Witness ==
    /\ Len(Returned) = 2
    /\ Returned[1].moslqo # Returned[2].moslqo
    /\ Cardinality(EventsOf("Measure")) = 2

SystemIdle ==
    /\ mode = "AUDIO"
    /\ native = "none"
    /\ pc = "new"
    /\ ctor_exc = <<>>
    /\ config = <<>>
    /\ model_path = ""
    /\ api = 0
    /\ engine = <<>>
    /\ calls = <<>>
    /\ measures = <<>>
    /\ outcome = NoOutcome
    /\ measured = 0
    /\ csvfile = <<>>

(***************************************************************************)
(* The target sample rate.                                                 *)
(***************************************************************************)
RateInputs ==
    ((SpeechMinRate - RateSpan)..(SpeechMinRate + RateSpan))
        \cup {1, 8000, 11025, 22050, 32000, 44100, 48000, 96000}

InitRate ==
    /\ SystemIdle
    /\ call \in { [fn |-> "_get_target_sample_rate", mode |-> m,
                   original_sr |-> r] : m \in Modes, r \in RateInputs }
    /\ value = <<>>

ApplyTargetRate ==
    /\ call.fn = "_get_target_sample_rate"
    /\ value = <<>>
    /\ value' = <<GetTargetSampleRate(call.mode, call.original_sr)>>
    /\ UNCHANGED <<call, sysvars>>

NextRate == ApplyTargetRate

SpecRate == InitRate /\ [][NextRate]_vars

RECURSIVE Pow2(_)
Pow2(k) == IF k <= 0 THEN 1 ELSE 2 * Pow2(k - 1)

Abs(x) == IF x < 0 THEN 0 - x ELSE x

\* number of bits of a >= 0
RECURSIVE BitLen(_)
BitLen(a) == IF a = 0 THEN 0 ELSE 1 + BitLen(a \div 2)

\* x and y stand for the same number
SameValue(x, y) ==
    LET e == IF x.exp < y.exp THEN x.exp ELSE y.exp
    IN x.num * Pow2(y.exp - e) = y.num * Pow2(x.exp - e)

(***************************************************************************)
(* Rounding to float32 (nearest, ties to even) of num / 2^exp.  No value   *)
(* the decoder produces is near float32's exponent limits.                 *)
(***************************************************************************)
Float32(num, exp) ==
    IF num = (0 - 2147483647) - 1 THEN Dy(0 - 1, exp - 31)
    ELSE
    LET a == Abs(num)
        k == BitLen(a) - 24
    IN IF k <= 0 THEN Dy(num, exp)
       ELSE LET q == a \div Pow2(k)
                r == a % Pow2(k)
                half == Pow2(k - 1)
                up == r > half \/ (r = half /\ q % 2 = 1)
                m == IF up THEN q + 1 ELSE q
            IN Dy(IF num < 0 THEN 0 - m ELSE m, exp - k)

\* the position of the leading bit of a float32 value x # 0
Magnitude(x) == BitLen(Abs(x.num)) - x.exp

(***************************************************************************)
(* The float32 sum of two float32 values.  The larger operand is widened   *)
(* to 27 bits; the smaller is brought to its scale, the bits shifted out   *)
(* kept as a sticky lowest bit; the sum is rounded.                        *)
(***************************************************************************)
AddF32(x, y) ==
    IF x.num = 0 THEN y
    ELSE IF y.num = 0 THEN x
    ELSE LET big == IF Magnitude(x) >= Magnitude(y) THEN x ELSE y
             small == IF Magnitude(x) >= Magnitude(y) THEN y ELSE x
             w == 27 - BitLen(Abs(big.num))
             e == big.exp + w
             B == big.num * Pow2(w)
             d == small.exp - e
             a == Abs(small.num)
             S == IF d <= 0 THEN a * Pow2(0 - d)
                  ELSE IF d > 27 THEN 1
                  ELSE LET q == a \div Pow2(d)
                       IN IF a % Pow2(d) # 0 /\ q % 2 = 0 THEN q + 1 ELSE q
         IN Float32(B + (IF small.num < 0 THEN 0 - S ELSE S), e)

\* the least t with a * 2^t >= n * 2^24, for 0 < a < n * 2^24
RECURSIVE ScaleFor(_, _)
ScaleFor(a, n) == IF a >= n * 16777216 THEN 0 ELSE 1 + ScaleFor(2 * a, n)

(***************************************************************************)
(* The float32 quotient of a float32 value by the integer n, 1 <= n < 64:  *)
(* the quotient to 25 bits, rounded to 24 with the remainder as sticky.    *)
(***************************************************************************)
DivF32(x, n) ==
    IF x.num = 0 THEN x
    ELSE LET a == Abs(x.num)
             t == ScaleFor(a, n)
             scaled == a * Pow2(t)
             Q == scaled \div n
             sticky == scaled % n # 0
             q == Q \div 2
             up == Q % 2 = 1 /\ (sticky \/ q % 2 = 1)
             m == IF up THEN q + 1 ELSE q
         IN Dy(IF x.num < 0 THEN 0 - m ELSE m, x.exp + t - 1)

(***************************************************************************)
(* The integer a group of little-endian bytes stands for, as               *)
(* int.from_bytes(..., 'little', signed=True) and numpy's signed dtypes    *)
(* read it: two's complement over the group's width.                       *)
(***************************************************************************)
RECURSIVE UnsignedLE(_)
UnsignedLE(bytes) ==
    IF bytes = <<>> THEN 0 ELSE bytes[1] + 256 * UnsignedLE(Tail(bytes))

SignedLE(bytes) ==
    IF bytes = <<>> THEN 0
    ELSE LET n == Len(bytes)
             top == bytes[n]
             low == UnsignedLE(SubSeq(bytes, 1, n - 1))
         IN low + Pow2(8 * (n - 1)) * (IF top >= 128 THEN top - 256 ELSE top)

\* the i-th group of w bytes; the last group may be short
Group(data, w, i) == SubSeq(data, w * (i - 1) + 1, Min(w * i, Len(data)))

(***************************************************************************)
(* The sample-width branches: the samples, interleaved, or the error.      *)
(***************************************************************************)
Sample8Signed(b) == Dy(IF b >= 128 THEN b - 256 ELSE b, 7)

Sample8(b) == Dy(b - 128, 7)

Sample16(bytes) == Dy(SignedLE(bytes), 15)

Sample24(bytes) == Float32(SignedLE(bytes), 23)

Sample32(bytes) == Float32(SignedLE(bytes), 31)

DecodeSamplesDefault8(sample_width, data) ==
    IF sample_width = 2 /\ Len(data) % 2 = 0
    THEN [ok |-> TRUE,
          samples |-> [i \in 1..(Len(data) \div 2) |-> Sample16(Group(data, 2, i))]]
    ELSE [ok |-> TRUE, samples |-> [i \in 1..Len(data) |-> Sample8(data[i])]]

DecodeSamples(sample_width, data) ==
    LET n == Len(data) IN
    IF sample_width = 1
    THEN [ok |-> TRUE, samples |-> [i \in 1..n |-> Sample8(data[i])]]
    ELSE IF sample_width = 2
    THEN IF n % 2 # 0 THEN [ok |-> FALSE, exc |-> "ValueError"]
         ELSE [ok |-> TRUE,
               samples |-> [i \in 1..(n \div 2) |-> Sample16(Group(data, 2, i))]]
    ELSE IF sample_width = 3
    THEN [ok |-> TRUE,
          samples |-> [i \in 1..((n + 2) \div 3) |-> Sample24(Group(data, 3, i))]]
    ELSE IF sample_width = 4
    THEN IF n % 4 # 0 THEN [ok |-> FALSE, exc |-> "ValueError"]
         ELSE [ok |-> TRUE,
               samples |-> [i \in 1..(n \div 4) |-> Sample32(Group(data, 4, i))]]
    ELSE [ok |-> FALSE, exc |-> "ValueError"]

(***************************************************************************)
(* numpy.mean over the channels of one frame, in float32: the channels     *)
(* are summed in order, the sum is divided by their number.                *)
(***************************************************************************)
RECURSIVE SumF32(_)
SumF32(xs) ==
    IF Len(xs) = 1 THEN xs[1]
    ELSE AddF32(SumF32(SubSeq(xs, 1, Len(xs) - 1)), xs[Len(xs)])

FrameMeanWeighted(xs) == DivF32(AddF32(SumF32(xs), xs[1]), Len(xs) + 1)

FrameMean(xs) == DivF32(SumF32(xs), Len(xs))

(***************************************************************************)
(* wav_file.readframes(n_frames) of the wave module: at most n_frames      *)
(* whole frames' worth of bytes, fewer when the file ends before the       *)
(* length its header declares.                                             *)
(***************************************************************************)
ReadFrames(wav) ==
    SubSeq(wav.data, 1,
           Min(Len(wav.data), wav.n_frames * wav.n_channels * wav.sample_width))

(***************************************************************************)
(* _load_wav_file on a file wave.open accepts: wav is [n_channels,         *)
(* sample_width, sample_rate, n_frames, data]: the header's fields as the  *)
(* wave module reports them and the bytes of the data chunk present in     *)
(* the file.  Any error underneath is raised again as a RuntimeError.      *)
(***************************************************************************)
DecodeWav(wav) ==
    LET d == DecodeSamples(wav.sample_width, ReadFrames(wav))
        failed == [ok |-> FALSE, exc |-> <<Err("RuntimeError", "_load_wav_file")>>,
                   audio_data |-> <<>>, sample_rate |-> 0]
    IN
    IF ~d.ok THEN failed
    ELSE IF wav.n_channels >= 2
    THEN IF Len(d.samples) % wav.n_channels # 0 THEN failed
         ELSE [ok |-> TRUE, exc |-> <<>>,
               audio_data |->
                   [f \in 1..(Len(d.samples) \div wav.n_channels) |->
                       FrameMean(SubSeq(d.samples, wav.n_channels * (f - 1) + 1,
                                        wav.n_channels * f))],
               sample_rate |-> wav.sample_rate]
    ELSE [ok |-> TRUE, exc |-> <<>>, audio_data |-> d.samples,
          sample_rate |-> wav.sample_rate]

(***************************************************************************)
(* Decoder inputs.  MonoSamples: every 8-bit mono sample, and the 16-, 24- *)
(* and 32-bit mono samples with every lowest or every highest byte, the    *)
(* other bytes among a few edge values.  Payloads: short payloads of any   *)
(* width, one or two channels, over EdgeBytes.  Frames: one or two whole   *)
(* frames of two or three channels, and one whole 40-bit mono sample.      *)
(* Headers: files whose header declares more or fewer bytes than the file  *)
(* holds.  The wave module reports n_frames = declared length \div frame   *)
(* size, so a file never holds more whole frames than n_frames.            *)
(***************************************************************************)
Byte == 0..255

EdgeBytes == {0, 1, 127, 128, 255}

FrameBytes == {1, 127, 128}

HeaderBytes == {1, 128}

Widths == 1..5 \cup {6, 8}

\* a file whose header declares n_frames frames and whose data chunk holds data
WavFileOf(n_channels, sample_width, n_frames, data) ==
    [n_channels |-> n_channels, sample_width |-> sample_width,
     sample_rate |-> 16000, n_frames |-> n_frames, data |-> data]

\* the file with the fewest declared frames from which readframes returns data
WavFile(n_channels, sample_width, data) ==
    WavFileOf(n_channels, sample_width,
              (Len(data) + n_channels * sample_width - 1)
                  \div (n_channels * sample_width),
              data)

LoadCall(wav) == [fn |-> "_load_wav_file", wav |-> wav]

MonoSamples ==
    \/ \E b \in Byte : call = LoadCall(WavFile(1, 1, <<b>>))
    \/ \E b0 \in Byte, b1 \in EdgeBytes :
           \/ call = LoadCall(WavFile(1, 2, <<b0, b1>>))
           \/ call = LoadCall(WavFile(1, 2, <<b1, b0>>))
    \/ \E b0 \in Byte, b1 \in {0, 255}, b2 \in EdgeBytes :
           \/ call = LoadCall(WavFile(1, 3, <<b0, b1, b2>>))
           \/ call = LoadCall(WavFile(1, 3, <<b2, b1, b0>>))
    \/ \E b0 \in Byte, b1 \in {0, 255}, b2 \in {0, 255}, b3 \in EdgeBytes :
           \/ call = LoadCall(WavFile(1, 4, <<b0, b1, b2, b3>>))
           \/ call = LoadCall(WavFile(1, 4, <<b3, b1, b2, b0>>))

Payloads ==
    \E c \in 1..2, w \in Widths, k \in 0..MaxBytes :
        \E d \in [1..k -> EdgeBytes] : call = LoadCall(WavFile(c, w, d))

Frames ==
    \/ \E d \in [1..3 -> EdgeBytes] : call = LoadCall(WavFile(3, 1, d))
    \/ \E d \in [1..6 -> FrameBytes] : call = LoadCall(WavFile(3, 1, d))
    \/ \E d \in [1..6 -> EdgeBytes \ {1}] :
           \/ call = LoadCall(WavFile(3, 2, d))
           \/ call = LoadCall(WavFile(2, 3, d))
    \/ \E d \in [1..8 -> FrameBytes] : call = LoadCall(WavFile(2, 4, d))
    \/ \E d \in [1..5 -> FrameBytes] : call = LoadCall(WavFile(1, 5, d))

Headers ==
    \E c \in 1..2, w \in 1..4, k \in 0..MaxBytes :
        \E d \in [1..k -> HeaderBytes] :
            \E n \in (k \div (c * w))..(k \div (c * w) + 1) :
                call = LoadCall(WavFileOf(c, w, n, d))

InitCodec ==
    /\ SystemIdle
    /\ value = <<>>
    /\ (MonoSamples \/ Payloads \/ Frames \/ Headers)

ApplyDecode ==
    /\ call.fn = "_load_wav_file"
    /\ value = <<>>
    /\ value' = <<DecodeWav(call.wav)>>
    /\ UNCHANGED <<call, sysvars>>

NextCodec == ApplyDecode

SpecCodec == InitCodec /\ [][NextCodec]_vars

(***************************************************************************)
(* C10: a mono file decodes sample by sample: an 8-bit byte b to           *)
(* (b - 128) / 128, a 16-bit little-endian signed value v to v / 32768.    *)
(***************************************************************************)
C10_Int16At(data, i) ==
    LET u == data[2 * i - 1] + 256 * data[2 * i]
    IN IF u >= 32768 THEN u - 65536 ELSE u

C10_MonoNormalization ==
    (value # <<>> /\ call.wav.n_channels = 1) =>
        LET data == call.wav.data
            out == value[1]
        IN /\ call.wav.sample_width = 1 =>
                 /\ out.ok
                 /\ Len(out.audio_data) = Len(data)
                 /\ \A i \in 1..Len(data) :
                        out.audio_data[i].num * 128 =
                            (data[i] - 128) * Pow2(out.audio_data[i].exp)
           /\ (call.wav.sample_width = 2 /\ Len(data) % 2 = 0) =>
                 /\ out.ok
                 /\ Len(out.audio_data) = Len(data) \div 2
                 /\ \A i \in 1..(Len(data) \div 2) :
                        out.audio_data[i].num * 32768 =
                            C10_Int16At(data, i) * Pow2(out.audio_data[i].exp)

\* an 8-bit payload of 128s decodes to zeros
C10_WitnessSilence ==
    /\ value # <<>>
    /\ call.wav.n_channels = 1 /\ call.wav.sample_width = 1
    /\ call.wav.data = <<128, 128>>
    /\ value[1].ok
    /\ \A i \in 1..2 : value[1].audio_data[i].num = 0

\* the 16-bit value -32768 (bytes 00 80) decodes to -1
C10_Witness ==
    /\ value # <<>>
    /\ call.wav.n_channels = 1 /\ call.wav.sample_width = 2
    /\ call.wav.data = <<0, 128>>
    /\ value[1].ok
    /\ Len(value[1].audio_data) = 1
    /\ value[1].audio_data[1].num = 0 - Pow2(value[1].audio_data[1].exp)

(***************************************************************************)
(* Exact comparison of a sample with the rational v / 2^E, without         *)
(* leaving the 32-bit integers: the sample's numerator is reduced to an    *)
(* odd number first.                                                       *)
(***************************************************************************)
RECURSIVE Reduced(_)
Reduced(x) ==
    IF x.num # 0 /\ x.num % 2 = 0 THEN Reduced(Dy(x.num \div 2, x.exp - 1))
    ELSE x

IsRatio(x, v, E) ==
    LET y == Reduced(x) IN
    IF y.num = 0 THEN v = 0
    ELSE IF E - y.exp > 30
    THEN E - y.exp = 31 /\ y.num = 0 - 1 /\ v = (0 - 2147483647) - 1
    ELSE /\ y.exp <= E
         /\ v % Pow2(E - y.exp) = 0
         /\ v \div Pow2(E - y.exp) = y.num

\* the mono file in hand holds whole samples only, as many as declared
WholeMono ==
    /\ value # <<>>
    /\ call.wav.n_channels = 1
    /\ Len(call.wav.data) = call.wav.n_frames * call.wav.sample_width

(***************************************************************************)
(* C11: a 24-bit sample v (three bytes, little-endian two's complement)    *)
(* decodes to exactly v / 8388608, a 32-bit sample v to exactly            *)
(* v / 2147483648, for every v including the extremes.                     *)
(***************************************************************************)
C11_IntAt(data, w, i) ==
    LET g == SubSeq(data, w * (i - 1) + 1, w * i)
        top == IF g[w] >= 128 THEN g[w] - 256 ELSE g[w]
        low == IF w = 3 THEN g[1] + 256 * g[2]
               ELSE g[1] + 256 * g[2] + 65536 * g[3]
    IN top * Pow2(8 * (w - 1)) + low

C11_WideSamplesExact ==
    (WholeMono /\ call.wav.sample_width \in {3, 4}) =>
        LET w == call.wav.sample_width
            out == value[1]
        IN /\ out.ok
           /\ Len(out.audio_data) = call.wav.n_frames
           /\ \A i \in 1..call.wav.n_frames :
                  IsRatio(out.audio_data[i], C11_IntAt(call.wav.data, w, i),
                          8 * w - 1)

\* the same statement for 24-bit files alone
C11_Wide24Exact ==
    call.wav.sample_width = 3 => C11_WideSamplesExact

(***************************************************************************)
(* C12: a file of n >= 2 channels and F whole frames decodes to F samples, *)
(* sample f being the plain mean of the n channel values of frame f: equal *)
(* to it where the mean is a float32 value (two channels of 8, 16 or 24    *)
(* bits), and within float32 rounding of it otherwise (2^-22, compared at  *)
(* a resolution of 2^-25).  A one-channel file decodes to its F samples    *)
(* unchanged.                                                              *)
(***************************************************************************)
WholeFrames ==
    /\ value # <<>>
    /\ call.wav.sample_width \in 1..4
    /\ Len(call.wav.data) =
           call.wav.n_frames * call.wav.n_channels * call.wav.sample_width

\* floor(x * 2^25)
C12_Scaled(x) ==
    IF x.exp <= 25 THEN x.num * Pow2(25 - x.exp)
    ELSE IF x.exp - 25 > 30 THEN (IF x.num < 0 THEN 0 - 1 ELSE 0)
    ELSE x.num \div Pow2(x.exp - 25)

RECURSIVE C12_Sum(_, _)
C12_Sum(F(_), n) == IF n = 0 THEN 0 ELSE F(n) + C12_Sum(F, n - 1)

\* the integer the i-th sample of width w <= 3 stands for
C12_IntAt(data, w, i) ==
    IF w = 1 THEN data[i] - 128
    ELSE LET g == SubSeq(data, w * (i - 1) + 1, w * i)
             u == IF w = 2 THEN g[1] + 256 * g[2]
                  ELSE g[1] + 256 * g[2] + 65536 * g[3]
         IN IF g[w] >= 128 THEN u - Pow2(8 * w) ELSE u

C12_DownmixIsFrameMean ==
    WholeFrames =>
        LET wav == call.wav
            n == wav.n_channels
            w == wav.sample_width
            out == value[1]
            x == DecodeSamples(w, wav.data).samples
        IN /\ out.ok
           /\ Len(out.audio_data) = wav.n_frames
           /\ n = 1 => out.audio_data = x
           /\ n >= 2 =>
                 \A f \in 1..wav.n_frames :
                    LET At(c) == C12_Scaled(x[n * (f - 1) + c])
                        IntAt(c) == C12_IntAt(wav.data, w, n * (f - 1) + c)
                        diff == n * C12_Scaled(out.audio_data[f])
                                    - C12_Sum(At, n)
                    IN /\ diff <= 5 * n /\ 0 - diff <= 5 * n
                       /\ (n = 2 /\ w <= 3) =>
                              IsRatio(out.audio_data[f], C12_Sum(IntAt, n),
                                      8 * w)

\* 24-bit stereo, the extremes -8388608 and 8388607 in one frame: -1 / 2^24
C12_Witness ==
    /\ value # <<>>
    /\ call.wav = WavFile(2, 3, <<0, 0, 128, 255, 255, 127>>)
    /\ value[1].ok
    /\ Len(value[1].audio_data) = 1
    /\ IsRatio(value[1].audio_data[1], 0 - 1, 24)

(***************************************************************************)
(* C13: no buffer decoded from a WAV file of 0 frames is handed to the     *)
(* engine's Measure; a measure whose reference is such a file fails with   *)
(* the decoder's error.                                                    *)
(***************************************************************************)
EmptyWavs == { s.name : s \in { t \in Sources : t.kind = "wav" /\ t.readable
                                                    /\ t.frames = 0 } }

C13_EmptyFileNeverMeasured ==
    /\ \A i \in EventsOf("Measure") :
           /\ calls[i].ref.src \notin EmptyWavs
           /\ calls[i].deg.src \notin EmptyWavs
    /\ \A i \in 1..Len(measures) :
           measures[i].ref \in EmptyWavs =>
               measures[i].exc = <<Err("RuntimeError", "_load_wav_file")>>

(***************************************************************************)
(* C14: a file of a supported width whose data chunk does not hold exactly *)
(* n_frames * n_channels * sample_width bytes is rejected with an error;   *)
(* no samples are returned for it.                                         *)
(***************************************************************************)
C14_LengthMismatchRejected ==
    (/\ value # <<>>
     /\ call.wav.sample_width \in 1..4
     /\ Len(call.wav.data) #
            call.wav.n_frames * call.wav.n_channels * call.wav.sample_width)
        => (~value[1].ok /\ value[1].audio_data = <<>>)

(***************************************************************************)
(* C15: a file whose sample width is not 1, 2, 3 or 4 bytes is rejected    *)
(* with the decoder's error and no samples, whatever its payload.          *)
(***************************************************************************)
C15_UnsupportedWidthRejected ==
    (value # <<>> /\ call.wav.sample_width \notin 1..4) =>
        /\ ~value[1].ok
        /\ value[1].exc = <<Err("RuntimeError", "_load_wav_file")>>
        /\ value[1].audio_data = <<>>

\* a 40-bit file holding one whole sample is rejected
C15_Witness ==
    /\ value # <<>>
    /\ call.wav = WavFile(1, 5, <<1, 127, 128, 1, 127>>)
    /\ ~value[1].ok
    /\ value[1].exc # <<>>

(***************************************************************************)
(* resample_audio (utils.py) and ViSQOL._resample_audio, which hold the    *)
(* same code, on a buffer of samples.  Equal rates return the input.       *)
(* Otherwise new_length output samples are interpolated at                 *)
(* numpy.linspace(0, orig_length - 1, new_length): the first position is   *)
(* 0 and, when there are two or more, the last is orig_length - 1 exactly, *)
(* so these two samples are the input's first and last; a one-sample input *)
(* is all numpy.interp has to answer with.  Position k of n lies at        *)
(* k * (orig_length - 1) / (n - 1) = j + r / (n - 1); numpy.interp gives   *)
(* input sample j there when r = 0 and otherwise                           *)
(*     fp[j] + (fp[j+1] - fp[j]) * r / (n - 1),                            *)
(* kept as the fraction [num, exp, den] = num / (2^exp * den).  The        *)
(* rounding of numpy's double arithmetic, an error of a few 2^-53 of the   *)
(* value, is left out.  numpy.interp raises ValueError for an empty input. *)
(***************************************************************************)
Between(lo, hi, r, den) ==
    LET E == IF lo.exp > hi.exp THEN lo.exp ELSE hi.exp
        a == lo.num * TwoTo(E - lo.exp)
        b == hi.num * TwoTo(E - hi.exp)
    IN [num |-> a * den + (b - a) * r, exp |-> E, den |-> den]

InterpAt(audio_data, k, n) ==
    IF Len(audio_data) = 1 \/ k = 0 THEN audio_data[1]
    ELSE IF k = n - 1 THEN audio_data[Len(audio_data)]
    ELSE LET j == (k * (Len(audio_data) - 1)) \div (n - 1)
             r == (k * (Len(audio_data) - 1)) % (n - 1)
         IN IF r = 0 THEN audio_data[j + 1]
            ELSE Between(audio_data[j + 1], audio_data[j + 2], r, n - 1)

Interpolated(audio_data, new_length) ==
    IF Len(audio_data) = 0
    THEN [ok |-> FALSE, exc |-> <<Err("ValueError", "numpy.interp")>>,
          audio_data |-> <<>>]
    ELSE [ok |-> TRUE, exc |-> <<>>,
          audio_data |-> [i \in 1..new_length |->
                             InterpAt(audio_data, i - 1, new_length)]]

ResampleAlways(audio_data, orig_sr, target_sr) ==
    Interpolated(audio_data, NewLength(Len(audio_data), orig_sr, target_sr))

ResampleAudioData(audio_data, orig_sr, target_sr) ==
    IF orig_sr = target_sr
    THEN [ok |-> TRUE, exc |-> <<>>, audio_data |-> audio_data]
    ELSE Interpolated(audio_data,
                      NewLength(Len(audio_data), orig_sr, target_sr))

(***************************************************************************)
(* Inputs of the resampler: every buffer of up to MaxLen samples drawn     *)
(* from SampleValues at the audio rates, and ramps of a few longer lengths *)
(* at audio rates and at small rates.                                      *)
(***************************************************************************)
SampleValues == {Dy(0 - 1, 0), Dy(0, 0), Dy(1, 1)}

AudioRates == {8000, 16000, 18900, 44100, 48000}

SmallRates == {1, 3, 13, 49}

RampLengths == {27, 49, 400}

Ramp(n) == [i \in 1..n |-> Dy(i - 1, 15)]

ResampleCall(audio_data, orig_sr, target_sr) ==
    [fn |-> "resample_audio", audio_data |-> audio_data, orig_sr |-> orig_sr,
     target_sr |-> target_sr]

ShortBuffers ==
    \E n \in 0..MaxLen : \E audio_data \in [1..n -> SampleValues] :
        \E orig_sr \in AudioRates : \E target_sr \in AudioRates :
            call = ResampleCall(audio_data, orig_sr, target_sr)

Ramps ==
    \E n \in RampLengths :
        \/ \E orig_sr \in AudioRates : \E target_sr \in AudioRates :
               call = ResampleCall(Ramp(n), orig_sr, target_sr)
        \/ \E orig_sr \in SmallRates : \E target_sr \in SmallRates :
               n < 50 /\ call = ResampleCall(Ramp(n), orig_sr, target_sr)

InitResample ==
    /\ SystemIdle
    /\ value = <<>>
    /\ (ShortBuffers \/ Ramps)

ApplyResample ==
    /\ call.fn = "resample_audio"
    /\ value = <<>>
    /\ \E r \in {ResampleAudioData(call.audio_data, call.orig_sr,
                                   call.target_sr)} :
           value' = <<r>>
    /\ UNCHANGED <<call, sysvars>>

NextResample == ApplyResample

SpecResample == InitResample /\ [][NextResample]_vars

(***************************************************************************)
(* C19: for a buffer of more than one sample and two distinct positive     *)
(* rates, the resampled buffer has exactly floor(len * r2 / r1) samples.   *)
(***************************************************************************)
C19_LengthIsExactFloor ==
    (/\ value # <<>>
     /\ Len(call.audio_data) > 1
     /\ call.orig_sr # call.target_sr)
        => /\ value[1].ok
           /\ Len(value[1].audio_data) =
                  (Len(call.audio_data) * call.target_sr) \div call.orig_sr

(***************************************************************************)
(* C20: resampling from a rate to the same rate returns the input buffer:  *)
(* the same samples in the same order, for empty and one-sample buffers    *)
(* too.                                                                    *)
(***************************************************************************)
C20_SameRateIsIdentity ==
    (value # <<>> /\ call.orig_sr = call.target_sr) =>
        /\ value[1].ok
        /\ value[1].audio_data = call.audio_data

\* a three-sample buffer and the empty buffer both came back as they were
C20_Witness ==
    /\ value # <<>>
    /\ call.orig_sr = call.target_sr
    /\ \/ call.audio_data = <<Dy(1, 1), Dy(0 - 1, 0), Dy(0, 0)>>
       \/ call.audio_data = <<>>
    /\ value[1].ok
    /\ value[1].audio_data = call.audio_data

(***************************************************************************)
(* _save_wav_file (utils.py and ViSQOL._save_wav_file hold the same code). *)
(* A buffer is [dtype, audio_data]: float32 as the decoder returns it, or  *)
(* float64.  audio_data * 32767 is computed in the buffer's own type: the  *)
(* float32 product is rounded to float32, the float64 product of the       *)
(* values used here is exact.                                              *)
(***************************************************************************)
Int16Scale == 32767

Int16s == (0 - 32768)..32767

ScaleSampleCoarse(dtype, x) ==
    IF dtype = "float32" THEN Float32(x.num * 32000, x.exp)
    ELSE Dy(x.num * 32000, x.exp)

ScaleSample(dtype, x) ==
    IF dtype = "float32" THEN Float32(x.num * Int16Scale, x.exp)
    ELSE Dy(x.num * Int16Scale, x.exp)

\* the integer part of x, toward zero
Truncated(x) ==
    IF x.exp <= 0 THEN x.num * Pow2(0 - x.exp)
    ELSE IF x.num < 0 THEN 0 - ((0 - x.num) \div Pow2(x.exp))
    ELSE x.num \div Pow2(x.exp)

\* the low 16 bits of t as a signed number
Wrap16(t) == ((t + 32768) % 65536) - 32768

(***************************************************************************)
(* astype(numpy.int16) is a C cast of each product.  An integer part that  *)
(* fits is the result.  One that does not fit is undefined behaviour: the  *)
(* builds in use convert to a wider integer and keep its low 16 bits, or   *)
(* store the 16-bit "integer indefinite" value -32768.                     *)
(***************************************************************************)
AsInt16(x) ==
    LET t == Truncated(x)
    IN IF t \in Int16s THEN {t} ELSE {Wrap16(t), 0 - 32768}

\* every audio_int16 the conversion of the buffer can give
RECURSIVE Conversions(_, _)
Conversions(dtype, audio_data) ==
    IF audio_data = <<>> THEN {<<>>}
    ELSE { <<v>> \o rest : v \in AsInt16(ScaleSample(dtype, Head(audio_data))),
                           rest \in Conversions(dtype, Tail(audio_data)) }

\* audio_int16.tobytes(): two bytes a sample, low byte first
RECURSIVE ToBytes(_)
ToBytes(audio_int16) ==
    IF audio_int16 = <<>> THEN <<>>
    ELSE <<Head(audio_int16) % 256, (Head(audio_int16) \div 256) % 256>>
             \o ToBytes(Tail(audio_int16))

(***************************************************************************)
(* What _save_wav_file leaves at file_path: a file is [wave], holding the  *)
(* WAV the wave module wrote, or nothing readable.  wave.open creates the  *)
(* file, so a frame rate the module refuses (<= 0) leaves it empty, and    *)
(* the error is raised again as a RuntimeError.                            *)
(***************************************************************************)
NotWave == [wave |-> <<>>]

WaveFile(wav) == [wave |-> <<wav>>]

SaveWavFileFixedRate(audio_int16, sample_rate) ==
    IF sample_rate <= 0
    THEN [op |-> "save", ok |-> FALSE,
          exc |-> <<Err("RuntimeError", "_save_wav_file")>>, file |-> NotWave]
    ELSE [op |-> "save", ok |-> TRUE, exc |-> <<>>,
          file |-> WaveFile([n_channels |-> 1, sample_width |-> 2,
                             sample_rate |-> SpeechDefaultRate,
                             n_frames |-> Len(audio_int16),
                             data |-> ToBytes(audio_int16)])]

SaveWavFile(audio_int16, sample_rate) ==
    IF sample_rate <= 0
    THEN [op |-> "save", ok |-> FALSE,
          exc |-> <<Err("RuntimeError", "_save_wav_file")>>, file |-> NotWave]
    ELSE [op |-> "save", ok |-> TRUE, exc |-> <<>>,
          file |-> WaveFile([n_channels |-> 1, sample_width |-> 2,
                             sample_rate |-> sample_rate,
                             n_frames |-> Len(audio_int16),
                             data |-> ToBytes(audio_int16)])]

(***************************************************************************)
(* load_audio(file_path, sample_rate): sample_rate is <<>> for None, <<r>> *)
(* for a target rate.  wave.open refuses a file that is not a WAV.  The    *)
(* step records the target it was called with next to what it returned.    *)
(***************************************************************************)
LoadAudio(file, sample_rate) ==
    LET Loaded(wav) ==
            IF ~wav.ok
            THEN [op |-> "load", target |-> sample_rate, ok |-> FALSE,
                  exc |-> wav.exc, audio_data |-> <<>>, sample_rate |-> 0]
            ELSE IF sample_rate # <<>> /\ wav.sample_rate # sample_rate[1]
            THEN LET Resampled(r) ==
                         [op |-> "load", target |-> sample_rate, ok |-> r.ok,
                          exc |-> r.exc,
                          audio_data |-> r.audio_data,
                          sample_rate |-> IF r.ok THEN sample_rate[1] ELSE 0]
                 IN Resampled(ResampleAudioData(wav.audio_data, wav.sample_rate,
                                                sample_rate[1]))
            ELSE [op |-> "load", target |-> sample_rate, ok |-> TRUE,
                  exc |-> <<>>, audio_data |-> wav.audio_data,
                  sample_rate |-> wav.sample_rate]
    IN Loaded(IF file.wave = <<>>
              THEN [ok |-> FALSE,
                    exc |-> <<Err("RuntimeError", "_load_wav_file")>>]
              ELSE DecodeWav(file.wave[1]))

(***************************************************************************)
(* Saving and loading in turn.  A run starts from a buffer in memory and   *)
(* the rate to save it at, or from a mono 16-bit file holding one sample.  *)
(* value lists the steps made: a save writes the buffer in hand (the       *)
(* starting buffer, or what the last load returned, at the rate it         *)
(* returned) to the one path of the run, a load reads that path.  At most  *)
(* MaxTrips saves are made.  A target rate is tried on the first load of   *)
(* a buffer saved at 8000..44100 Hz; what it returns is not saved again.   *)
(***************************************************************************)
SaveValues ==
    { Dy(0, 0), Dy(1, 0), Dy(0 - 1, 0), Dy(1, 1), Dy(1, 2), Dy(0 - 1, 2),
      Dy(3, 1), Dy(0 - 3, 1), Dy(32769, 15) }

SaveRates == {0 - 1, 0, 1, 8000, 44100, 2147483647}

LoadTargets == {<<>>, <<8000>>, <<16000>>}

WavIoCall(buffer, file, sample_rate) ==
    [fn |-> "wav_io", buffer |-> buffer, file |-> file,
     sample_rate |-> sample_rate]

Buffers ==
    \E dtype \in {"float32", "float64"} : \E n \in 0..MaxSamples :
        \E audio_data \in [1..n -> SaveValues] : \E sample_rate \in SaveRates :
            call = WavIoCall(<<[dtype |-> dtype, audio_data |-> audio_data]>>,
                             <<>>, sample_rate)

EncodedFiles ==
    \E i \in Int16s :
        call = WavIoCall(<<>>,
                         <<WaveFile([n_channels |-> 1, sample_width |-> 2,
                                     sample_rate |-> SpeechDefaultRate,
                                     n_frames |-> 1, data |-> ToBytes(<<i>>)])>>,
                         SpeechDefaultRate)

InitWavIo ==
    /\ SystemIdle
    /\ value = <<>>
    /\ (Buffers \/ EncodedFiles)

LastStep == value[Len(value)]

SavesMade == Cardinality({k \in 1..Len(value) : value[k].op = "save"})

\* the file at the path of the run
FileAtPath ==
    IF \E k \in 1..Len(value) : value[k].op = "save"
    THEN value[CHOOSE k \in 1..Len(value) :
                   /\ value[k].op = "save"
                   /\ \A j \in (k + 1)..Len(value) : value[j].op # "save"].file
    ELSE call.file[1]

Save ==
    /\ call.fn = "wav_io"
    /\ SavesMade < MaxTrips
    /\ \/ value = <<>> /\ call.buffer # <<>>
       \/ value # <<>> /\ LastStep.op = "load" /\ LastStep.ok
                       /\ LastStep.target = <<>>
    /\ \E buf \in {IF value = <<>> THEN call.buffer[1]
                   ELSE [dtype |-> "float32",
                         audio_data |-> LastStep.audio_data]} :
       \E sample_rate \in {IF value = <<>> THEN call.sample_rate
                           ELSE LastStep.sample_rate} :
       \E audio_int16 \in Conversions(buf.dtype, buf.audio_data) :
           value' = Append(value, SaveWavFile(audio_int16, sample_rate))
    /\ UNCHANGED <<call, sysvars>>

Load ==
    /\ call.fn = "wav_io"
    /\ \/ value = <<>> /\ call.file # <<>>
       \/ value # <<>> /\ LastStep.op = "save"
    /\ \E sample_rate \in LoadTargets :
           /\ sample_rate # <<>> =>
                  (call.buffer # <<>> /\ Len(value) = 1
                      /\ call.sample_rate \in 8000..44100)
           /\ value' = Append(value, LoadAudio(FileAtPath, sample_rate))
    /\ UNCHANGED <<call, sysvars>>

NextWavIo == Save \/ Load

SpecWavIo == InitWavIo /\ [][NextWavIo]_vars

\* the integers a saved file holds, and the samples handed to save step k
StoredInts(file) ==
    [i \in 1..(Len(file.wave[1].data) \div 2) |->
        SignedLE(Group(file.wave[1].data, 2, i))]

SavedSamples(k) ==
    IF k = 1 THEN call.buffer[1].audio_data ELSE value[k - 1].audio_data

SavedRate(k) == IF k = 1 THEN call.sample_rate ELSE value[k - 1].sample_rate

(***************************************************************************)
(* C16: a successful save writes a mono 16-bit file at the rate it was     *)
(* given, and each stored integer is round(value * 32767) clamped to       *)
(* -32768..32767: a product of 32767.5 or more is stored as 32767, one of  *)
(* -32768.5 or less as -32768, any other as an integer at most 1/2 away    *)
(* from it.  x is num / 2^exp, so the product is num * 32767 / 2^exp.      *)
(***************************************************************************)
C16_RoundedAndClamped(x, stored) ==
    LET D == Pow2(x.exp)
        q == x.num * Int16Scale
    IN IF q - 32767 * D >= (D + 1) \div 2 THEN stored = 32767
       ELSE IF q + 32768 * D <= 0 - ((D + 1) \div 2) THEN stored = 0 - 32768
       ELSE Abs(q - stored * D) <= D \div 2

C16_StoresRoundedClamped ==
    call.fn = "wav_io" =>
        \A k \in 1..Len(value) :
            (value[k].op = "save" /\ value[k].ok) =>
                LET wav == value[k].file.wave[1]
                    stored == StoredInts(value[k].file)
                IN /\ wav.n_channels = 1
                   /\ wav.sample_width = 2
                   /\ wav.sample_rate = SavedRate(k)
                   /\ Len(stored) = Len(SavedSamples(k))
                   /\ \A i \in 1..Len(stored) :
                          C16_RoundedAndClamped(SavedSamples(k)[i], stored[i])

(***************************************************************************)
(* C17: starting from a mono 16-bit file holding the integer i, the        *)
(* integer stored by every later save (decode, then encode, once or        *)
(* repeatedly) differs from i by at most one.                              *)
(***************************************************************************)
C17_Original == SignedLE(call.file[1].wave[1].data)

C17_StaysWithinOneStep ==
    (call.fn = "wav_io" /\ call.file # <<>>) =>
        \A k \in 1..Len(value) :
            (value[k].op = "save" /\ value[k].ok) =>
                Abs(StoredInts(value[k].file)[1] - C17_Original) <= 1

(***************************************************************************)
(* C17, amended: each decode-and-encode round trip changes the stored      *)
(* integer by at most one step, so encode(decode(i)) differs from i by at  *)
(* most one and n round trips move a sample at most n steps from i.        *)
(***************************************************************************)
C17_Before(k) ==
    IF k = 2 THEN C17_Original ELSE StoredInts(value[k - 2].file)[1]

C17_OneStepPerRoundTrip ==
    (call.fn = "wav_io" /\ call.file # <<>>) =>
        \A k \in 1..Len(value) :
            (value[k].op = "save" /\ value[k].ok) =>
                Abs(StoredInts(value[k].file)[1] - C17_Before(k)) <= 1

\* 100 was stored as 99 by the first round trip and as 98 by the second
C17_Witness ==
    /\ call.fn = "wav_io"
    /\ call.file # <<>>
    /\ C17_Original = 100
    /\ Len(value) = 4
    /\ value[2].op = "save" /\ StoredInts(value[2].file) = <<99>>
    /\ value[4].op = "save" /\ StoredInts(value[4].file) = <<98>>

(***************************************************************************)
(* C18: save_audio(buffer, path, rate) with a positive rate succeeds, and  *)
(* load_audio(path) with no target rate then returns that rate and a       *)
(* buffer whose length is within one sample of the saved buffer's.         *)
(***************************************************************************)
C18_SaveThenLoadKeepsRateAndLength ==
    (call.fn = "wav_io" /\ call.buffer # <<>> /\ call.sample_rate > 0) =>
        /\ Len(value) >= 1 => value[1].ok
        /\ (Len(value) >= 2 /\ value[2].target = <<>>) =>
               /\ value[2].ok
               /\ value[2].sample_rate = call.sample_rate
               /\ Abs(Len(value[2].audio_data)
                          - Len(call.buffer[1].audio_data)) <= 1

\* two samples saved at the highest rate a WAV header holds came back as two
\* samples at that rate
C18_Witness ==
    /\ call.fn = "wav_io"
    /\ call.buffer # <<>>
    /\ call.sample_rate = 2147483647
    /\ Len(call.buffer[1].audio_data) = 2
    /\ Len(value) >= 2
    /\ value[1].op = "save" /\ value[1].ok
    /\ value[2].op = "load" /\ value[2].target = <<>> /\ value[2].ok
    /\ value[2].sample_rate = 2147483647
    /\ Len(value[2].audio_data) = 2

(***************************************************************************)
(* C21: an array handed to measure reaches the engine as it is: the same   *)
(* samples in the same order, not resampled; and a pair of arrays is       *)
(* measured with the default handle, which is configured at the mode's     *)
(* default rate (48000 in AUDIO, 16000 in SPEECH).                         *)
(***************************************************************************)
C21_ArrayAsGiven(buf, src) ==
    src.kind = "array" =>
        /\ buf.data.samples = src.samples
        /\ buf.len = Len(src.samples)
        /\ ~buf.resampled

C21_ArraysNotResampled ==
    outcome.op = "measure" =>
        \A i \in EventsOf("Measure") :
            /\ C21_ArrayAsGiven(calls[i].ref, outcome.args[1][1])
            /\ C21_ArrayAsGiven(calls[i].deg, outcome.args[1][2])
            /\ (outcome.args[1][1].kind = "array"
                    /\ outcome.args[1][2].kind = "array") =>
                   /\ calls[i].handle = api
                   /\ engine[api].sample_rate =
                          (IF mode = "AUDIO" THEN 48000 ELSE 16000)

\* in SPEECH mode a pair of arrays produced at 48 kHz was measured with the
\* 16 kHz default handle, all six samples handed over
C21_Witness ==
    /\ mode = "SPEECH"
    /\ outcome.op = "measure"
    /\ outcome.ret # <<>>
    /\ outcome.args[1][1].kind = "array" /\ outcome.args[1][2].kind = "array"
    /\ outcome.args[1][1].rate = 48000
    /\ \E i \in EventsOf("Measure") :
           /\ calls[i].handle = api
           /\ engine[api].sample_rate = 16000
           /\ calls[i].ref.len = 6
           /\ calls[i].ref.data.samples = outcome.args[1][1].samples

(***************************************************************************)
(* C22: a successful measure made one engine Measure call and returns its  *)
(* output as it came: the same moslqo and vnsim, fvnsim and                *)
(* center_freq_bands with the same values in the same order; each path     *)
(* field is the input's path string for a file and None for an array.      *)
(***************************************************************************)
C22_PathField(src) == IF src.kind = "array" THEN <<>> ELSE <<src.name>>

C22_ResultIsEngineOutput ==
    (outcome.op = "measure" /\ outcome.ret # <<>>) =>
        /\ Cardinality(EventsOf("Measure")) = 1
        /\ \A e \in EventsOf("Measure") :
              /\ calls[e].out # <<>>
              /\ outcome.ret[1].moslqo = calls[e].out[1].moslqo
              /\ outcome.ret[1].vnsim = calls[e].out[1].vnsim
              /\ outcome.ret[1].fvnsim = calls[e].out[1].fvnsim
              /\ outcome.ret[1].center_freq_bands =
                     calls[e].out[1].center_freq_bands
        /\ outcome.ret[1].reference_path = C22_PathField(outcome.args[1][1])
        /\ outcome.ret[1].degraded_path = C22_PathField(outcome.args[1][2])

\* a file measured against an array: one path, one None, the engine's bands
C22_Witness ==
    /\ outcome.op = "measure"
    /\ outcome.ret # <<>>
    /\ outcome.args[1][1].kind = "wav"
    /\ outcome.args[1][2].kind = "array"
    /\ outcome.ret[1].reference_path = <<"ref16k.wav">>
    /\ outcome.ret[1].degraded_path = <<>>
    /\ outcome.ret[1].fvnsim = <<97, 99>>
    /\ outcome.ret[1].moslqo = 473

(***************************************************************************)
(* C24: every configuration the instance has Created a handle with, the    *)
(* default one and every sample-rate variant, has the options of the       *)
(* instance's mode; only sample_rate differs.  AUDIO: no speech scoring,   *)
(* no lattice model, radius 60, the SVR model.  SPEECH: speech scoring,    *)
(* lattice model, voice-activity detection, scaled MOS mapping, radius 60, *)
(* the lattice model file.                                                 *)
(***************************************************************************)
C24_Options(cfg) ==
    [use_speech_scoring |-> cfg.use_speech_scoring,
     use_lattice_model |-> cfg.use_lattice_model,
     detect_voice_activity |-> cfg.detect_voice_activity,
     use_unscaled_speech_mos_mapping |-> cfg.use_unscaled_speech_mos_mapping,
     search_window_radius |-> cfg.search_window_radius,
     svr_model_path |-> cfg.svr_model_path]

C24_ConfigsCarryModeDefaults ==
    \A h \in 1..Len(engine) :
        /\ C24_Options(engine[h]) = C24_Options(engine[1])
        /\ engine[h].search_window_radius = 60
        /\ mode = "AUDIO" =>
               /\ ~engine[h].use_speech_scoring
               /\ ~engine[h].use_lattice_model
               /\ engine[h].svr_model_path = "libsvm_nu_svr_model.txt"
        /\ mode = "SPEECH" =>
               /\ engine[h].use_speech_scoring
               /\ engine[h].use_lattice_model
               /\ engine[h].detect_voice_activity
               /\ ~engine[h].use_unscaled_speech_mos_mapping
               /\ engine[h].svr_model_path =
                      "lattice_tcditugenmeetpackhref_ls2_nl60_lr12_bs2048_learn.005_ep2400_train1_7_raw.tflite"

\* a SPEECH instance holding its 16 kHz default and a 44.1 kHz variant
C24_Witness ==
    /\ mode = "SPEECH"
    /\ Len(engine) >= 2
    /\ engine[1].sample_rate = 16000
    /\ engine[2].sample_rate = 44100
    /\ engine[2].detect_voice_activity


(***************************************************************************)
(* Sample values as fractions num / (2^exp * den), to compare the          *)
(* resampler's output with the interpolation the specification describes.  *)
(***************************************************************************)
C25_Fraction(x) ==
    IF "den" \in DOMAIN x THEN x
    ELSE [num |-> x.num, exp |-> x.exp, den |-> 1]

C25_Scaled(a, b) ==
    a.num * TwoTo((IF a.exp > b.exp THEN 0 ELSE b.exp - a.exp)) * b.den

C25_Same(x, y) ==
    LET a == C25_Fraction(x)
        b == C25_Fraction(y)
    IN IF a.den = b.den /\ a.exp = b.exp THEN a.num = b.num
       ELSE C25_Scaled(a, b) = C25_Scaled(b, a)

C25_AtMost(x, y) ==
    LET a == C25_Fraction(x)
        b == C25_Fraction(y)
    IN C25_Scaled(a, b) <= C25_Scaled(b, a)

\* the linear interpolation of the input at the index k * (L - 1) / (n - 1)
C25_Expected(audio_data, k, n) ==
    LET j == (k * (Len(audio_data) - 1)) \div (n - 1)
        r == (k * (Len(audio_data) - 1)) % (n - 1)
    IN IF r = 0 THEN audio_data[j + 1]
       ELSE Between(audio_data[j + 1], audio_data[j + 2], r, n - 1)

C25_Min(audio_data) ==
    CHOOSE i \in DOMAIN audio_data :
        \A j \in DOMAIN audio_data : C25_AtMost(audio_data[i], audio_data[j])

C25_Max(audio_data) ==
    CHOOSE i \in DOMAIN audio_data :
        \A j \in DOMAIN audio_data : C25_AtMost(audio_data[j], audio_data[i])

C25_Interpolates(audio_data, out, n) ==
    /\ \A k \in 0..(n - 1) :
           /\ (k + 1) \in DOMAIN out
           /\ C25_Same(out[k + 1], C25_Expected(audio_data, k, n))
    /\ out # <<>>
    /\ out[1] = audio_data[1]
    /\ out[Len(out)] = audio_data[Len(audio_data)]
    /\ \E lo \in {C25_Min(audio_data)} : \E hi \in {C25_Max(audio_data)} :
           \A i \in DOMAIN out :
               /\ C25_AtMost(audio_data[lo], out[i])
               /\ C25_AtMost(out[i], audio_data[hi])

(***************************************************************************)
(* C25: for distinct rates, an input of L >= 2 samples and                 *)
(* N = floor(L * r2 / r1) >= 2, output sample k of the resampler is the    *)
(* linear interpolation of the input at the index k * (L - 1) / (N - 1);   *)
(* the first and last output samples are the first and last input samples  *)
(* and no output sample lies outside the input's range.                    *)
(***************************************************************************)
C25_InterpolatesAtVirtualIndex ==
    (/\ value # <<>>
     /\ call.orig_sr # call.target_sr
     /\ Len(call.audio_data) >= 2
     /\ (Len(call.audio_data) * call.target_sr) \div call.orig_sr >= 2)
        => /\ value[1].ok
           /\ C25_Interpolates(call.audio_data, value[1].audio_data,
                  (Len(call.audio_data) * call.target_sr) \div call.orig_sr)

\* the same with the length the resampler produced in place of the floor
C25_InterpolatesAtOwnLength ==
    (/\ value # <<>>
     /\ call.orig_sr # call.target_sr
     /\ Len(call.audio_data) >= 2
     /\ value[1].ok
     /\ Len(value[1].audio_data) >= 2)
        => C25_Interpolates(call.audio_data, value[1].audio_data,
                            Len(value[1].audio_data))

\* three samples at 8000 Hz became six at 16000 Hz, the second of them
\* two fifths of the way from the first input sample to the second
C25_Witness ==
    /\ value # <<>>
    /\ call.audio_data = <<Dy(0, 0), Dy(1, 1), Dy(0 - 1, 0)>>
    /\ call.orig_sr = 8000
    /\ call.target_sr = 16000
    /\ value[1].ok
    /\ Len(value[1].audio_data) = 6
    /\ value[1].audio_data[2] = [num |-> 2, exp |-> 1, den |-> 5]

(***************************************************************************)
(* C26: for an input of at most one sample and distinct rates the          *)
(* resampler does not fail: one sample v gives floor(r2 / r1) copies of v  *)
(* (none when r2 < r1) and the empty buffer gives the empty buffer.        *)
(***************************************************************************)
C26_DegenerateInputsAreDefined ==
    (/\ value # <<>>
     /\ call.orig_sr # call.target_sr
     /\ Len(call.audio_data) <= 1)
        => /\ value[1].ok
           /\ Len(call.audio_data) = 1 =>
                  value[1].audio_data =
                      [i \in 1..(call.target_sr \div call.orig_sr) |->
                          call.audio_data[1]]
           /\ Len(call.audio_data) = 0 => value[1].audio_data = <<>>

\* the one-sample part alone
C26_OneSampleIsRepeated ==
    (/\ value # <<>>
     /\ call.orig_sr # call.target_sr
     /\ Len(call.audio_data) = 1)
        => /\ value[1].ok
           /\ value[1].audio_data =
                  [i \in 1..(call.target_sr \div call.orig_sr) |->
                      call.audio_data[1]]


(***************************************************************************)
(* C27: within one measure call the reference is loaded first and the      *)
(* degraded second, both before any handle is requested, any Create or any *)
(* Measure; when either source fails to load, the call makes no Create and *)
(* no Measure.                                                             *)
(***************************************************************************)
C27_EngineEvents ==
    EventsOf("get_api") \cup EventsOf("Create") \cup EventsOf("Measure")

C27_LoadsBeforeEngine ==
    outcome.op = "measure" =>
        /\ calls # <<>>
        /\ calls[1] = [ev |-> "load", src |-> outcome.args[1][1].name]
        /\ \A i \in EventsOf("load") :
              /\ i <= 2
              /\ i = 2 => calls[2] =
                     [ev |-> "load", src |-> outcome.args[1][2].name]
        /\ \A i \in C27_EngineEvents :
              /\ i > 2
              /\ EventsOf("load") = {1, 2}
              /\ LoadsOk(mode, outcome.args[1])
        /\ ~LoadsOk(mode, outcome.args[1]) =>
              /\ C27_EngineEvents = {}
              /\ outcome.exc # <<>>

\* SPEECH mode: a 44.1 kHz reference, which needs a handle of its own, and
\* a degraded file that cannot be read: two loads and nothing else
C27_Witness ==
    /\ outcome.op = "measure"
    /\ mode = "SPEECH"
    /\ outcome.args[1][1].name = "deg44k.wav"
    /\ outcome.args[1][2].name = "broken.wav"
    /\ Len(calls) = 2
    /\ Len(engine) = 1
    /\ outcome.exc # <<>>

\* both sources loaded, then a new handle, then Measure
C27_WitnessMeasured ==
    /\ outcome.op = "measure"
    /\ outcome.ret # <<>>
    /\ Len(calls) = 5
    /\ calls[1].ev = "load"
    /\ calls[2].ev = "load"
    /\ calls[3].ev = "Create"
    /\ calls[5].ev = "Measure"


(***************************************************************************)
(* C28: measure_batch measures the pairs in input order and stops at the   *)
(* first failing pair: when pair k (counted from 0) is the first to fail,  *)
(* measure was called exactly k + 1 times, once for each of the pairs      *)
(* 0..k, and no source of a later pair is loaded or measured.              *)
(***************************************************************************)
C28_IsLoad(e) == e.ev = "load"

C28_Loads == SelectSeq(calls, C28_IsLoad)

C28_StopsAtFirstFailure ==
    IsBatch =>
        /\ Len(measures) <= Len(outcome.args)
        /\ \A i \in 1..Len(measures) :
              /\ measures[i].ref = outcome.args[i][1].name
              /\ measures[i].deg = outcome.args[i][2].name
              /\ measures[i].exc # <<>> => i = Len(measures)
        /\ FailedMeasures = {} => Len(measures) = Len(outcome.args)
        /\ FailedMeasures # {} => outcome.exc # <<>>
        /\ Len(C28_Loads) <= 2 * Len(measures)
        /\ Len(C28_Loads) >= 2 * Len(measures) - 1
        /\ \A n \in 1..Len(C28_Loads) :
              C28_Loads[n].src = outcome.args[(n + 1) \div 2][2 - (n % 2)].name
        /\ Cardinality(EventsOf("Measure")) <= Len(measures)
        /\ Cardinality(EventsOf("Measure")) >= Len(measures) - 1

\* two pairs, the first with an unreadable degraded file: one measure call,
\* two loads, and the second pair untouched
C28_Witness ==
    /\ IsBatch
    /\ Len(outcome.args) = 2
    /\ outcome.args[1][2].name = "broken.wav"
    /\ outcome.args[2][1].name = "ref16k.wav"
    /\ Len(measures) = 1
    /\ Len(C28_Loads) = 2
    /\ EventsOf("Measure") = {}
    /\ outcome.exc # <<>>


(***************************************************************************)
(* C30: measure_batch with output_csv writes the CSV file only after every *)
(* pair has been measured successfully: a step that changes the file is a  *)
(* batch in which every pair returned a result, the file is written last   *)
(* and holds the header and one row per pair in input order; a batch in    *)
(* which a pair fails neither creates nor changes the file.                *)
(***************************************************************************)
C30_Written(file_pairs, done) ==
    [header |-> <<"reference", "degraded", "moslqo">>,
     rows |-> [i \in 1..Len(file_pairs) |->
                  [reference |-> file_pairs[i][1].name,
                   degraded |-> file_pairs[i][2].name,
                   moslqo |-> SixDecimals(done[i].ret[1].moslqo)]]]

C30_BatchFailed(out, done) ==
    /\ out.op = "measure_batch"
    /\ \/ out.exc # <<>>
       \/ \E i \in 1..Len(done) : done[i].exc # <<>>

C30_Saves(events) == { i \in 1..Len(events) : events[i].ev = "save_csv" }

C30_CsvOnlyAfterAllMeasured ==
    [][ /\ C30_BatchFailed(outcome', measures') =>
               /\ csvfile' = csvfile
               /\ C30_Saves(calls') = {}
        /\ (csvfile' # csvfile \/ C30_Saves(calls') # {}) =>
               /\ outcome'.op = "measure_batch"
               /\ outcome'.exc = <<>>
               /\ CsvRequested(outcome'.output_csv)
               /\ Len(measures') = Len(outcome'.args)
               /\ \A i \in 1..Len(measures') : measures'[i].ret # <<>>
               /\ C30_Saves(calls') = {Len(calls')}
               /\ csvfile' = <<C30_Written(outcome'.args, measures')>>
      ]_vars

\* a batch with output_csv failed on its pair, and the file still holds the
\* one row an earlier batch wrote
C30_Witness ==
    /\ IsBatch
    /\ outcome.exc # <<>>
    /\ outcome.output_csv = <<"results.csv">>
    /\ Len(outcome.args) = 1
    /\ csvfile # <<>>
    /\ Len(csvfile[1].rows) = 1
    /\ csvfile[1].rows[1].moslqo = [whole |-> 4, millionths |-> 730000]

\* a failing batch with output_csv, and no file
C30_WitnessNotCreated ==
    /\ IsBatch
    /\ outcome.exc # <<>>
    /\ outcome.output_csv = <<"results.csv">>
    /\ Len(measures) = 2
    /\ csvfile = <<>>


(***************************************************************************)
(* C29: no measure or measure_batch call, whether it returns or raises,    *)
(* changes the instance's mode, its default configuration, its model path  *)
(* or its default handle, nor the configuration that handle was Created    *)
(* with; after the call a request at the mode's default rate returns the   *)
(* handle created at construction and Creates nothing.                     *)
(***************************************************************************)
C29_DefaultRequest(m, cfg, mpath, apiH, nat, eng) ==
    GetApiForSampleRate(cfg[1], mpath, apiH, nat,
                        [engine |-> eng, events |-> <<>>],
                        IF m = "SPEECH" THEN 16000 ELSE 48000)

====
